---- MODULE Spec2Model ----
(***************************************************************************)
(* Map<Key, T, Compare>: an ordered map with unique keys stored in an AA    *)
(* tree (src/unnamed/part_000).  Nodes live in a heap indexed by address;   *)
(* every pointer of the C++ code is an address or NULL.  Each operator      *)
(* below takes the map object `m` (heap + the members root_, b_iter_,       *)
(* size_) and returns the map object after the call, with the call's        *)
(* return value in the fields ret / ok and the addresses it released in     *)
(* the field freed.                                                         *)
(***************************************************************************)
EXTENDS Integers, Sequences, FiniteSets

\* ---------------------------------------------------------------- bounds
\* keys are 1..MaxKey when the mapped type has one value,
\* 1..MaxKeyT when it has the values 1..MaxVal
MaxKey == 8
MaxKeyT == 5
MaxVal == 2
\* keys are 1..MaxKeyC under the coarse comparator, and for the caller whose
\* allocations can fail
MaxKeyC == 4
\* insert creates no node in a map whose size_ has reached MaxSize
MaxSize == 8
\* keys are 1..MaxKey2 when the caller owns two Map instances
MaxKey2 == 3
\* the map holds at most MaxDeep keys for the caller whose keys are renamed
\* after each call
MaxDeep == 14
\* skew and split are applied to every binary search tree of at most MaxRot
\* nodes with levels in 1..MaxLevel
MaxRot == 5
MaxLevel == 2

Keys == 1..MaxKey
KeysT == 1..MaxKeyT
KeysC == 1..MaxKeyC
Keys2 == 1..MaxKey2
Vals == 1..MaxVal
Addr == 1..(MaxSize + 1)
KeysDeep == 1..(2 * MaxDeep + 1)
AddrDeep == 1..(MaxDeep + 1)

\* nullptr
NULL == 0
\* the largest value of size_type (std::size_t); stands for 2^64 - 1
SizeMax == 2147483647
\* an address that is not (or no longer) a node of the tree
Dangling == -1

VARIABLES
    heap,       \* Addr -> Node: the objects created by `new Node`
    root_,      \* Map::root_
    b_iter_,    \* Map::b_iter_ (the ptr_ of the cached begin iterator)
    size_,      \* Map::size_
    Key,        \* the Key template argument: the set of keys in use
    T,          \* the T template argument: the set of mapped values
    Compare,    \* the Compare template argument: "less" or "coarse"
    stored,     \* history: keys inserted and not erased since
    last,       \* history: the branch taken by the last call
    phase,      \* history: the caller's phase (fill, then drain) and the
                \* number of keys it inserted; "any" for an arbitrary caller
    other,      \* root_, b_iter_ and size_ of a second Map instance whose
                \* nodes live in the same heap
    alive,      \* the instances ("this", "other") that are constructed and
                \* not yet destroyed
    lost        \* history: some node became unreachable from both instances
                \* without being released

vars ==
    <<heap, root_, b_iter_, size_, Key, T, Compare, stored, last, phase,
      other, alive, lost>>

\* ---------------------------------------------------------------- nodes
Node(value, left, right, parent, level) ==
    [value |-> value, left |-> left, right |-> right, parent |-> parent,
     level |-> level]

\* the std::pair<const Key, T> a node's value pointer refers to
Pair(first, second) == [first |-> first, second |-> second]

\* a slot holding no node: never allocated, or left behind by ~Node
FreeNode == Node(Pair(0, 0), NULL, NULL, NULL, 0)

\* operator new: the address of the created node (the lowest unused one)
NewAddr(h) ==
    CHOOSE a \in DOMAIN h : h[a] = FreeNode /\ \A b \in DOMAIN h : h[b] = FreeNode => a <= b

\* Compare()(a, b).  "less" is std::less<Key>; "coarse" is a strict weak
\* ordering whose equivalence classes are {1,2}, {3,4}, ... (keys that
\* differ under == can be equivalent).
comparator_(a, b) ==
    IF Compare = "coarse" THEN (a + 1) \div 2 < (b + 1) \div 2 ELSE a < b

\* size_type subtraction (unsigned, wrapping)
SizeSub(a, b) == IF a >= b THEN a - b ELSE SizeMax - (b - a) + 1

\* faulty variant of SizeDec: the decrement is forgotten
SizeDec_Keep(a) == a

\* size_type decrement (unsigned, wrapping)
SizeDec(a) == IF a = 0 THEN SizeMax ELSE a - 1

\* the map object made of the current values of the members
this ==
    [heap |-> heap, root_ |-> root_, b_iter_ |-> b_iter_, size_ |-> size_,
     ret |-> NULL, ok |-> FALSE, freed |-> {}]

\* Map::e_iter_: the end iterator is always Iterator(nullptr)
e_iter_ == NULL

\* root_, b_iter_ and size_ as Map(), ~Map and a move leave them
NoMap == [root_ |-> NULL, b_iter_ |-> NULL, size_ |-> 0]

\* sequencing: `Bind(e, LAMBDA x : body)` is the C++ `auto x = e; body`
Bind(v, F(_)) == F(v)

\* ---------------------------------------------------------------- ~Node
\* delete n: ~Node releases the node and, recursively, both child subtrees
RECURSIVE DeleteNode(_, _)
DeleteNode(m, n) ==
    IF n = NULL THEN m
    ELSE Bind(DeleteNode(m, m.heap[n].left), LAMBDA m1 :
         Bind(DeleteNode(m1, m1.heap[n].right), LAMBDA m2 :
         [m2 EXCEPT !.heap[n] = FreeNode, !.freed = @ \cup {n}]))

\* ---------------------------------------------------------------- traversal
RECURSIVE DescendLeft(_, _)
DescendLeft(h, n) == IF h[n].left # NULL THEN DescendLeft(h, h[n].left) ELSE n

RECURSIVE DescendRight(_, _)
DescendRight(h, n) == IF h[n].right # NULL THEN DescendRight(h, h[n].right) ELSE n

RECURSIVE ClimbWhileRight(_, _, _)
ClimbWhileRight(h, node, parent) ==
    IF parent # NULL /\ h[parent].right = node
    THEN ClimbWhileRight(h, parent, h[parent].parent)
    ELSE parent

RECURSIVE ClimbWhileLeft(_, _, _)
ClimbWhileLeft(h, node, parent) ==
    IF parent # NULL /\ h[parent].left = node
    THEN ClimbWhileLeft(h, parent, h[parent].parent)
    ELSE parent

\* faulty variant of next: the right child itself is returned, without
\* descending to its leftmost node
next_SkipDescend(h, node) ==
    IF h[node].right # NULL
    THEN h[node].right
    ELSE ClimbWhileRight(h, node, h[node].parent)

\* faulty variant of next: a node without a right child has no successor
next_NoClimb(h, node) ==
    IF h[node].right # NULL
    THEN DescendLeft(h, h[node].right)
    ELSE NULL

next(h, node) ==
    IF h[node].right # NULL
    THEN DescendLeft(h, h[node].right)
    ELSE ClimbWhileRight(h, node, h[node].parent)

\* faulty variant of prev: the left child itself is returned, without
\* descending to its rightmost node
prev_SkipDescend(h, node) ==
    IF h[node].left # NULL
    THEN h[node].left
    ELSE ClimbWhileLeft(h, node, h[node].parent)

prev(h, node) ==
    IF h[node].left # NULL
    THEN DescendRight(h, h[node].left)
    ELSE ClimbWhileLeft(h, node, h[node].parent)

beginNode(h, node) == IF node = NULL THEN NULL ELSE DescendLeft(h, node)

\* ---------------------------------------------------------------- lookup
\* the loop of findParent: <<node, parent>> when it ends
RECURSIVE FindParentLoop(_, _, _, _)
FindParentLoop(m, node, parent, search_key) ==
    IF node = NULL THEN <<node, parent>>
    ELSE LET key == m.heap[node].value.first IN
         IF ~comparator_(key, search_key) /\ ~comparator_(search_key, key)
         THEN <<node, node>>
         ELSE IF comparator_(search_key, key)
              THEN FindParentLoop(m, m.heap[node].left, node, search_key)
              ELSE FindParentLoop(m, m.heap[node].right, node, search_key)

findParent(m, search_key) ==
    LET np == FindParentLoop(m, m.root_, NULL, search_key) IN
    IF np[1] # NULL \/ m.size_ = 0 THEN np[1] ELSE np[2]

RECURSIVE FindNodeLoop(_, _, _)
FindNodeLoop(m, node, search_key) ==
    IF node = NULL THEN node
    ELSE LET key == m.heap[node].value.first IN
         IF ~comparator_(key, search_key) /\ ~comparator_(search_key, key)
         THEN node
         ELSE IF comparator_(search_key, key)
              THEN FindNodeLoop(m, m.heap[node].left, search_key)
              ELSE FindNodeLoop(m, m.heap[node].right, search_key)

\* faulty variant of findNode: when the key is absent the last node visited
\* is returned instead of nullptr
findNode_LastVisited(m, search_key) ==
    FindParentLoop(m, m.root_, NULL, search_key)[2]

findNode(m, search_key) == FindNodeLoop(m, m.root_, search_key)

find(m, search_key) == findNode(m, search_key)
contains(m, key) == findNode(m, key) # NULL
begin(m) == m.b_iter_
end(m) == e_iter_
empty(m) == m.size_ = 0
getSize(m) == m.size_

\* ---------------------------------------------------------------- balancing
\* `parent->left == node ? parent->left = to : parent->right = to`, skipped
\* when parent is null
\* faulty variant of Reattach: the parent's link is never rewritten
Reattach_Never(h, parent, node, to) == h

\* faulty variant of Reattach: the parent's left link is always the one
\* rewritten
Reattach_AlwaysLeft(h, parent, node, to) ==
    IF parent # NULL THEN [h EXCEPT ![parent].left = to] ELSE h

Reattach(h, parent, node, to) ==
    IF parent # NULL
    THEN IF h[parent].left = node
         THEN [h EXCEPT ![parent].left = to]
         ELSE [h EXCEPT ![parent].right = to]
    ELSE h

\* faulty variant of skew: the subtree that changes sides keeps its old
\* parent link
skew_NoReparent(m, node) ==
    IF m.heap[node].left = NULL \/ m.heap[node].level # m.heap[m.heap[node].left].level
    THEN [m EXCEPT !.ret = node]
    ELSE Bind(m.heap[node].left, LAMBDA left_node :
         Bind([m.heap EXCEPT ![node].left = m.heap[left_node].right], LAMBDA h1 :
         Bind([h1 EXCEPT ![left_node].right = node], LAMBDA h3 :
         Bind([h3 EXCEPT ![left_node].parent = h3[node].parent], LAMBDA h4 :
         Bind(Reattach(h4, h4[node].parent, node, left_node), LAMBDA h5 :
         Bind([h5 EXCEPT ![node].parent = left_node], LAMBDA h6 :
         [m EXCEPT !.heap = h6,
                   !.root_ = IF m.root_ = node THEN left_node ELSE @,
                   !.ret = left_node]))))))

skew(m, node) ==
    IF m.heap[node].left = NULL \/ m.heap[node].level # m.heap[m.heap[node].left].level
    THEN [m EXCEPT !.ret = node]
    ELSE Bind(m.heap[node].left, LAMBDA left_node :
         Bind([m.heap EXCEPT ![node].left = m.heap[left_node].right], LAMBDA h1 :
         Bind(IF h1[left_node].right # NULL
              THEN [h1 EXCEPT ![h1[left_node].right].parent = node]
              ELSE h1, LAMBDA h2 :
         Bind([h2 EXCEPT ![left_node].right = node], LAMBDA h3 :
         Bind([h3 EXCEPT ![left_node].parent = h3[node].parent], LAMBDA h4 :
         Bind(Reattach(h4, h4[node].parent, node, left_node), LAMBDA h5 :
         Bind([h5 EXCEPT ![node].parent = left_node], LAMBDA h6 :
         [m EXCEPT !.heap = h6,
                   !.root_ = IF m.root_ = node THEN left_node ELSE @,
                   !.ret = left_node])))))))

split(m, node) ==
    IF m.heap[node].right = NULL \/ m.heap[m.heap[node].right].right = NULL
       \/ m.heap[node].level # m.heap[m.heap[m.heap[node].right].right].level
    THEN [m EXCEPT !.ret = node]
    ELSE Bind(m.heap[node].right, LAMBDA right_node :
         Bind([m.heap EXCEPT ![node].right = m.heap[right_node].left], LAMBDA h1 :
         Bind(IF h1[right_node].left # NULL
              THEN [h1 EXCEPT ![h1[right_node].left].parent = node]
              ELSE h1, LAMBDA h2 :
         Bind([h2 EXCEPT ![right_node].left = node], LAMBDA h3 :
         Bind([h3 EXCEPT ![right_node].parent = h3[node].parent], LAMBDA h4 :
         Bind(Reattach(h4, h4[node].parent, node, right_node), LAMBDA h5 :
         Bind([h5 EXCEPT ![node].parent = right_node], LAMBDA h6 :
         [m EXCEPT !.heap = [h6 EXCEPT ![right_node].level = @ + 1],
                   !.root_ = IF m.root_ = node THEN right_node ELSE @,
                   !.ret = right_node])))))))

\* faulty variant of LevelDiff: a missing child counts as a child of the
\* node's own level
LevelDiff_IgnoreMissing(h, node, child) ==
    IF child # NULL THEN SizeSub(h[node].level, h[child].level) ELSE 0

\* node->level - child->level, or node->level when there is no such child
LevelDiff(h, node, child) ==
    IF child # NULL THEN SizeSub(h[node].level, h[child].level) ELSE h[node].level

\* faulty variant of decreaseNodeLevel: levels are never decreased
decreaseNodeLevel_Never(m, node) == m

\* faulty variant of decreaseNodeLevel: the right child that shares the
\* node's level is left at that level
decreaseNodeLevel_KeepRight(m, node) ==
    Bind(LevelDiff(m.heap, node, m.heap[node].left), LAMBDA left_diff :
    Bind(LevelDiff(m.heap, node, m.heap[node].right), LAMBDA right_diff :
    IF left_diff > 1 \/ right_diff > 1
    THEN [m EXCEPT !.heap[node].level = SizeDec(@)]
    ELSE m))

\* faulty variant of decreaseNodeLevel: the level is decreased only when
\* both children are more than one level below the node
decreaseNodeLevel_Both(m, node) ==
    Bind(LevelDiff(m.heap, node, m.heap[node].left), LAMBDA left_diff :
    Bind(LevelDiff(m.heap, node, m.heap[node].right), LAMBDA right_diff :
    IF left_diff > 1 /\ right_diff > 1
    THEN Bind(IF m.heap[node].right # NULL
                 /\ m.heap[m.heap[node].right].level = m.heap[node].level
              THEN [m.heap EXCEPT ![m.heap[node].right].level = SizeDec(@)]
              ELSE m.heap, LAMBDA h1 :
         [m EXCEPT !.heap = [h1 EXCEPT ![node].level = SizeDec(@)]])
    ELSE m))

decreaseNodeLevel(m, node) ==
    Bind(LevelDiff(m.heap, node, m.heap[node].left), LAMBDA left_diff :
    Bind(LevelDiff(m.heap, node, m.heap[node].right), LAMBDA right_diff :
    IF left_diff > 1 \/ right_diff > 1
    THEN Bind(IF m.heap[node].right # NULL
                 /\ m.heap[m.heap[node].right].level = m.heap[node].level
              THEN [m.heap EXCEPT ![m.heap[node].right].level = SizeDec(@)]
              ELSE m.heap, LAMBDA h1 :
         [m EXCEPT !.heap = [h1 EXCEPT ![node].level = SizeDec(@)]])
    ELSE m))

\* ---------------------------------------------------------------- insert
\* faulty variant of InsertWalk: the walk stops after the first ancestor
\* without change
RECURSIVE InsertWalk_StopAtFirst(_, _, _)
InsertWalk_StopAtFirst(m, rebalance_node, unchanged_nodes) ==
    IF rebalance_node = NULL \/ ~(unchanged_nodes < 1)
    THEN [m EXCEPT !.ret = rebalance_node]
    ELSE Bind(skew(m, rebalance_node), LAMBDA s1 :
         Bind(IF rebalance_node # s1.ret THEN s1 ELSE split(s1, rebalance_node),
              LAMBDA s2 :
         Bind(rebalance_node # s1.ret \/ rebalance_node # s2.ret,
              LAMBDA is_tree_changed :
         InsertWalk_StopAtFirst(s2, s2.heap[rebalance_node].parent,
                                IF ~is_tree_changed THEN unchanged_nodes + 1 ELSE 0))))

\* the rebalancing walk of insert (the while loop); ret is rebalance_node
\* when the loop ends
RECURSIVE InsertWalk(_, _, _)
InsertWalk(m, rebalance_node, unchanged_nodes) ==
    IF rebalance_node = NULL \/ ~(unchanged_nodes < 3)
    THEN [m EXCEPT !.ret = rebalance_node]
    ELSE Bind(skew(m, rebalance_node), LAMBDA s1 :
         \* || short-circuits: split runs only when skew changed nothing
         Bind(IF rebalance_node # s1.ret THEN s1 ELSE split(s1, rebalance_node),
              LAMBDA s2 :
         Bind(rebalance_node # s1.ret \/ rebalance_node # s2.ret,
              LAMBDA is_tree_changed :
         InsertWalk(s2, s2.heap[rebalance_node].parent,
                    IF ~is_tree_changed THEN unchanged_nodes + 1 ELSE 0))))

\* insert from `if (comparator_(value.first, b_iter_->first))` on: the tree is
\* not empty, new_node is allocated and size_ is incremented
InsertLink(m, value, parent, new_node) ==
    Bind(IF comparator_(value.first, m.heap[m.b_iter_].value.first)
         THEN [m EXCEPT !.b_iter_ = new_node]
         ELSE m, LAMBDA m2 :
    Bind(comparator_(value.first, m2.heap[parent].value.first), LAMBDA goes_left :
    Bind(IF goes_left
         THEN [m2 EXCEPT !.heap[parent].left = new_node]
         ELSE [m2 EXCEPT !.heap[parent].right = new_node], LAMBDA m3 :
    Bind(IF goes_left THEN parent ELSE m3.heap[parent].parent,
         LAMBDA rebalance_node :
    InsertWalk(m3, rebalance_node, 0)))))

insert(m, value) ==
    Bind(findParent(m, value.first), LAMBDA parent :
    IF parent # NULL /\ m.heap[parent].value.first = value.first
    THEN [m EXCEPT !.ret = parent, !.ok = FALSE]
    ELSE Bind(NewAddr(m.heap), LAMBDA new_node :
         Bind([m EXCEPT !.heap[new_node] = Node(value, NULL, NULL, parent, 1),
                        !.size_ = @ + 1], LAMBDA m1 :
         Bind(IF parent = NULL
              THEN [m1 EXCEPT !.root_ = new_node, !.b_iter_ = new_node]
              ELSE InsertLink(m1, value, parent, new_node), LAMBDA m4 :
         [m4 EXCEPT !.ret = new_node, !.ok = TRUE]))))

\* faulty variant of insertNoMemory: size_ is incremented before the node is
\* allocated
insertNoMemory_SizeFirst(m, value) ==
    Bind(findParent(m, value.first), LAMBDA parent :
    IF parent # NULL /\ m.heap[parent].value.first = value.first
    THEN [map |-> [m EXCEPT !.ret = parent, !.ok = FALSE], thrown |-> FALSE]
    ELSE [map |-> [m EXCEPT !.size_ = @ + 1], thrown |-> TRUE])

\* insert when operator new has no memory left: the statements of insert up
\* to `new value_type(value)` / `new Node(...)`, which throws std::bad_alloc.
\* map is the map object the call leaves, thrown tells whether the exception
\* left insert (insert has no handler and is not noexcept).
insertNoMemory(m, value) ==
    Bind(findParent(m, value.first), LAMBDA parent :
    IF parent # NULL /\ m.heap[parent].value.first = value.first
    THEN [map |-> [m EXCEPT !.ret = parent, !.ok = FALSE], thrown |-> FALSE]
    ELSE [map |-> m, thrown |-> TRUE])

\* ---------------------------------------------------------------- erase
\* faulty variant of trivialNodeErase: root_ is not updated when the root
\* itself is erased
trivialNodeErase_KeepRoot(m, node_to_erase, child) ==
    Bind(IF child # NULL
         THEN [m.heap EXCEPT ![child].parent = m.heap[node_to_erase].parent]
         ELSE m.heap, LAMBDA h1 :
    Bind(IF m.root_ # node_to_erase THEN h1[node_to_erase].parent ELSE NULL,
         LAMBDA parent :
    Bind(IF m.root_ # node_to_erase
         THEN Reattach(h1, parent, node_to_erase, child)
         ELSE h1, LAMBDA h2 :
    Bind(IF m.b_iter_ = node_to_erase THEN next(h2, m.b_iter_) ELSE m.b_iter_,
         LAMBDA b2 :
    Bind([m EXCEPT !.heap = [h2 EXCEPT ![node_to_erase].left = NULL,
                                       ![node_to_erase].right = NULL,
                                       ![node_to_erase].parent = NULL],
                   !.b_iter_ = b2, !.size_ = SizeDec(@)],
         LAMBDA m1 :
    [DeleteNode(m1, node_to_erase) EXCEPT !.ret = parent])))))

trivialNodeErase(m, node_to_erase, child) ==
    Bind(IF child # NULL
         THEN [m.heap EXCEPT ![child].parent = m.heap[node_to_erase].parent]
         ELSE m.heap, LAMBDA h1 :
    Bind(IF m.root_ # node_to_erase THEN h1[node_to_erase].parent ELSE NULL,
         LAMBDA parent :
    Bind(IF m.root_ # node_to_erase
         THEN Reattach(h1, parent, node_to_erase, child)
         ELSE h1, LAMBDA h2 :
    Bind(IF m.root_ # node_to_erase THEN m.root_ ELSE child, LAMBDA root2 :
    \* ++b_iter_
    Bind(IF m.b_iter_ = node_to_erase THEN next(h2, m.b_iter_) ELSE m.b_iter_,
         LAMBDA b2 :
    Bind([m EXCEPT !.heap = [h2 EXCEPT ![node_to_erase].left = NULL,
                                       ![node_to_erase].right = NULL,
                                       ![node_to_erase].parent = NULL],
                   !.root_ = root2, !.b_iter_ = b2, !.size_ = SizeDec(@)],
         LAMBDA m1 :
    [DeleteNode(m1, node_to_erase) EXCEPT !.ret = parent]))))))

\* the body of erase's walk when the level changed: skew x3, split x2;
\* ret is the node the walk continues from (its parent comes next)
EraseRebalance(m, node) ==
    Bind(skew(m, node), LAMBDA s1 :
    Bind(s1.ret, LAMBDA r1 :
    Bind(IF s1.heap[r1].right # NULL
         THEN Bind(skew(s1, s1.heap[r1].right), LAMBDA t :
              IF t.heap[t.heap[r1].right].right # NULL
              THEN skew(t, t.heap[t.heap[r1].right].right)
              ELSE t)
         ELSE s1, LAMBDA s3 :
    Bind(split(s3, r1), LAMBDA s4 :
    Bind(s4.ret, LAMBDA r2 :
    Bind(IF s4.heap[r2].right # NULL
         THEN split(s4, s4.heap[r2].right)
         ELSE s4, LAMBDA s5 :
    [s5 EXCEPT !.ret = r2]))))))

\* faulty variant of EraseWalk: the walk stops after its first node, whether
\* or not that node's level changed
EraseWalk_OneNode(m, rebalance_node, is_level_changed) ==
    IF rebalance_node = NULL \/ ~is_level_changed
    THEN [m EXCEPT !.ret = rebalance_node]
    ELSE Bind(m.heap[rebalance_node].level, LAMBDA init_level :
         Bind(decreaseNodeLevel(m, rebalance_node), LAMBDA m1 :
         IF init_level # m1.heap[rebalance_node].level
         THEN Bind(EraseRebalance(m1, rebalance_node), LAMBDA m2 :
              [m2 EXCEPT !.ret = m2.heap[m2.ret].parent])
         ELSE [m1 EXCEPT !.ret = m1.heap[rebalance_node].parent]))

\* the rebalancing walk of erase (the while loop); ret is rebalance_node
\* when the loop ends
RECURSIVE EraseWalk(_, _, _)
EraseWalk(m, rebalance_node, is_level_changed) ==
    IF rebalance_node = NULL \/ ~is_level_changed
    THEN [m EXCEPT !.ret = rebalance_node]
    ELSE Bind(m.heap[rebalance_node].level, LAMBDA init_level :
         Bind(decreaseNodeLevel(m, rebalance_node), LAMBDA m1 :
         IF init_level # m1.heap[rebalance_node].level
         THEN Bind(EraseRebalance(m1, rebalance_node), LAMBDA m2 :
              EraseWalk(m2, m2.heap[m2.ret].parent, TRUE))
         ELSE EraseWalk(m1, m1.heap[rebalance_node].parent, FALSE)))

\* the two-children branch of erase, up to `delete next_node`;
\* ret is rebalance_node
EraseTwoChildren(m, current_node) ==
    Bind(next(m.heap, current_node), LAMBDA next_node :
    Bind(m.heap[next_node].right, LAMBDA right_child :
    Bind(m.heap[next_node].parent, LAMBDA rebalance_node :
    Bind(IF right_child # NULL
         THEN [m.heap EXCEPT ![right_child].parent = rebalance_node]
         ELSE m.heap, LAMBDA h1 :
    Bind(IF h1[rebalance_node].left = next_node
         THEN [h1 EXCEPT ![rebalance_node].left = right_child]
         ELSE [h1 EXCEPT ![rebalance_node].right = right_child], LAMBDA h2 :
    \* std::swap(current_node->value, next_node->value)
    Bind([h2 EXCEPT ![current_node].value = h2[next_node].value,
                    ![next_node].value = h2[current_node].value], LAMBDA h3 :
    \* current_node->value->second = std::move(next_node->value->second)
    Bind([h3 EXCEPT ![current_node].value.second = h3[next_node].value.second],
         LAMBDA h4 :
    Bind([m EXCEPT !.heap = [h4 EXCEPT ![next_node].left = NULL,
                                       ![next_node].right = NULL,
                                       ![next_node].parent = NULL],
                   !.size_ = SizeDec(@)], LAMBDA m1 :
    [DeleteNode(m1, next_node) EXCEPT !.ret = rebalance_node]))))))))

\* the four-way branch of erase on the children of current_node;
\* ret is rebalance_node
EraseNode(m, current_node) ==
    Bind(m.heap[current_node].left, LAMBDA left :
    Bind(m.heap[current_node].right, LAMBDA right :
    IF left = NULL /\ right = NULL THEN trivialNodeErase(m, current_node, NULL)
    ELSE IF left # NULL /\ right = NULL THEN trivialNodeErase(m, current_node, left)
    ELSE IF left = NULL /\ right # NULL THEN trivialNodeErase(m, current_node, right)
    ELSE EraseTwoChildren(m, current_node)))

erase(m, erased_key) ==
    IF m.root_ = NULL THEN m
    ELSE Bind(findNode(m, erased_key), LAMBDA current_node :
         IF current_node # NULL
         THEN Bind(EraseNode(m, current_node), LAMBDA m1 :
              [EraseWalk(m1, m1.ret, TRUE) EXCEPT !.ret = NULL])
         ELSE m)

\* ---------------------------------------------------------------- copy, move
\* faulty variant of CopyNode: the copy keeps the children of the node it
\* copies instead of copying them
CopyNode_Shallow(m, other_node) ==
    Bind(NewAddr(m.heap), LAMBDA self :
    [m EXCEPT !.heap[self] = Node(m.heap[other_node].value,
                                  m.heap[other_node].left,
                                  m.heap[other_node].right, NULL,
                                  m.heap[other_node].level),
              !.ret = self])

\* new Node(*other_node): the copy constructor of Node; ret is the address of
\* the copy
RECURSIVE CopyNode(_, _)
CopyNode(m, other_node) ==
    Bind(NewAddr(m.heap), LAMBDA self :
    Bind([m EXCEPT !.heap[self] = Node(m.heap[other_node].value, NULL, NULL, NULL,
                                       m.heap[other_node].level)], LAMBDA m0 :
    Bind(IF m0.heap[other_node].left # NULL
         THEN Bind(CopyNode(m0, m0.heap[other_node].left), LAMBDA c :
              [c EXCEPT !.heap[self].left = c.ret, !.heap[c.ret].parent = self])
         ELSE m0, LAMBDA m1 :
    Bind(IF m1.heap[other_node].right # NULL
         THEN Bind(CopyNode(m1, m1.heap[other_node].right), LAMBDA c :
              [c EXCEPT !.heap[self].right = c.ret, !.heap[c.ret].parent = self])
         ELSE m1, LAMBDA m2 :
    [m2 EXCEPT !.ret = self]))))

\* Map(const Map& other): the constructed map, in the heap of other_map
MapCopy(other_map) ==
    Bind(IF other_map.root_ = NULL
         THEN [other_map EXCEPT !.ret = NULL]
         ELSE CopyNode(other_map, other_map.root_), LAMBDA c :
    [c EXCEPT !.root_ = c.ret, !.b_iter_ = beginNode(c.heap, c.ret),
              !.size_ = other_map.size_, !.ret = NULL])

\* operator=(const Map& other) on the map m; is_self is `this == &other`
CopyAssign(m, other_map, is_self) ==
    IF is_self THEN m
    ELSE Bind(DeleteNode(m, m.root_), LAMBDA d :
         Bind([d EXCEPT !.root_ = NULL, !.size_ = 0, !.b_iter_ = NULL], LAMBDA d1 :
         IF other_map.root_ # NULL
         THEN Bind(CopyNode(d1, other_map.root_), LAMBDA c :
              [c EXCEPT !.root_ = c.ret, !.b_iter_ = beginNode(c.heap, c.ret),
                        !.size_ = other_map.size_, !.ret = NULL])
         ELSE d1))

\* Map(Map&& other): dst is the constructed map, src is other afterwards
MapMove(other_map) ==
    [dst |-> other_map,
     src |-> [other_map EXCEPT !.root_ = NULL, !.b_iter_ = NULL, !.size_ = 0]]

\* faulty variant of MoveAssign: size_ is not taken over from other
MoveAssign_KeepSize(m, other_map, is_self) ==
    IF is_self THEN [dst |-> m, src |-> other_map]
    ELSE [dst |-> [m EXCEPT !.root_ = other_map.root_,
                            !.b_iter_ = other_map.b_iter_],
          src |-> [other_map EXCEPT !.root_ = NULL, !.b_iter_ = NULL, !.size_ = 0]]

\* operator=(Map&& other) on the map m: dst is m afterwards, src is other
\* afterwards
MoveAssign(m, other_map, is_self) ==
    IF is_self THEN [dst |-> m, src |-> other_map]
    ELSE [dst |-> [m EXCEPT !.root_ = other_map.root_,
                            !.b_iter_ = other_map.b_iter_,
                            !.size_ = other_map.size_],
          src |-> [other_map EXCEPT !.root_ = NULL, !.b_iter_ = NULL, !.size_ = 0]]

\* ~Map
DestroyMap(m) ==
    Bind(DeleteNode(m, m.root_), LAMBDA d :
    [d EXCEPT !.root_ = NULL, !.b_iter_ = NULL, !.size_ = 0])

\* ---------------------------------------------------------------- addresses
\* Addresses are opaque: the code only compares them for equality.  After each
\* call the nodes reachable from root_ are renumbered 1..n in preorder, so
\* that two heaps differing only in where `new` placed the nodes are one state.
\* A pointer to a node that is not reachable from root_ becomes Dangling.
RECURSIVE Preorder(_, _)
Preorder(h, n) ==
    IF n = NULL THEN <<>>
    ELSE <<n>> \o Preorder(h, h[n].left) \o Preorder(h, h[n].right)

\* the nodes reachable from root in h, as a set
Reach(h, root) ==
    Bind(Preorder(h, root), LAMBDA order : {order[i] : i \in 1..Len(order)})

\* the new address of a: its position in the preorder sequence `order`
Index(order, a) ==
    IF a = NULL THEN NULL
    ELSE IF \E i \in 1..Len(order) : order[i] = a
         THEN CHOOSE i \in 1..Len(order) : order[i] = a
         ELSE Dangling

Renumber(m) ==
    Bind(Preorder(m.heap, m.root_), LAMBDA order :
    [m EXCEPT !.heap = [a \in DOMAIN m.heap |->
                          IF a <= Len(order)
                          THEN Bind(m.heap[order[a]], LAMBDA n :
                               Node(n.value, Index(order, n.left),
                                    Index(order, n.right),
                                    Index(order, n.parent), n.level))
                          ELSE FreeNode],
              !.root_ = Index(order, m.root_),
              !.b_iter_ = Index(order, m.b_iter_)])

\* ---------------------------------------------------------------- history
Equivalent(a, b) == ~comparator_(a, b) /\ ~comparator_(b, a)

\* the branch insert took, from the map object r it returned
InsertBranch(r) ==
    [op |-> "insert", branch |-> IF r.ok THEN "new" ELSE "dup",
     min |-> r.ok /\ r.b_iter_ = r.ret]

\* the branch erase(key) takes from the map m; min: the erased node is begin()
EraseBranch(m, key) ==
    Bind(IF m.root_ = NULL THEN NULL ELSE findNode(m, key), LAMBDA n :
    [op |-> "erase",
     branch |-> IF n = NULL THEN "absent"
                ELSE IF m.heap[n].left = NULL /\ m.heap[n].right = NULL THEN "leaf"
                ELSE IF m.heap[n].right = NULL THEN "left"
                ELSE IF m.heap[n].left = NULL THEN "right"
                ELSE "two",
     min |-> n # NULL /\ n = m.b_iter_])

\* ---------------------------------------------------------------- behaviour
\* the members after a call that left the map object m
Commit(m) ==
    Bind(Renumber(m), LAMBDA r :
    /\ heap' = r.heap
    /\ root_' = r.root_
    /\ b_iter_' = r.b_iter_
    /\ size_' = r.size_)

\* Map(): the empty map
InitMap ==
    /\ heap = [a \in Addr |-> FreeNode]
    /\ root_ = NULL
    /\ b_iter_ = NULL
    /\ size_ = 0
    /\ stored = {}
    /\ last = [op |-> "init", branch |-> "none", min |-> FALSE]
    /\ other = NoMap
    /\ alive = {"this"}
    /\ lost = FALSE

\* a call of insert(value_type(k, v)); a call that would create a node is
\* made only while size_ is below MaxSize
InsertCall(k, v) ==
    /\ Bind(insert(this, Pair(k, v)), LAMBDA r :
            /\ r.ok => size_ < MaxSize
            /\ Commit(r)
            /\ last' = InsertBranch(r))
    /\ stored' = IF \E j \in stored : Equivalent(j, k) THEN stored ELSE stored \cup {k}
    /\ UNCHANGED <<Key, T, Compare, other, alive, lost>>

\* a call of erase(k)
EraseCall(k) ==
    /\ Commit(erase(this, k))
    /\ stored' = {j \in stored : ~Equivalent(j, k)}
    /\ last' = EraseBranch(this, k)
    /\ UNCHANGED <<Key, T, Compare, other, alive, lost>>

Insert(k, v) == InsertCall(k, v) /\ UNCHANGED phase

Erase(k) == EraseCall(k) /\ UNCHANGED phase

Next ==
    \/ \E k \in Key, v \in T : Insert(k, v)
    \/ \E k \in Key : Erase(k)

AnyCaller == phase = [name |-> "any", N |-> 0]

\* Map<Key, T, std::less<Key>> with a one-valued mapped type
Init == InitMap /\ Key = Keys /\ T = {1} /\ Compare = "less" /\ AnyCaller

Spec == Init /\ [][Next]_vars

\* Map<Key, T, std::less<Key>> with the mapped values 1..MaxVal
InitT == InitMap /\ Key = KeysT /\ T = Vals /\ Compare = "less" /\ AnyCaller

SpecT == InitT /\ [][Next]_vars

\* the same map instantiated with a comparator whose equivalence is coarser
\* than ==
InitCoarse == InitMap /\ Key = KeysC /\ T = Vals /\ Compare = "coarse" /\ AnyCaller

SpecCoarse == InitCoarse /\ [][Next]_vars

\* a caller that inserts N distinct keys in some order and then erases all of
\* them in some order
Fill(k, v) ==
    /\ phase.name = "fill"
    /\ k \notin stored
    /\ InsertCall(k, v)
    /\ phase' = [phase EXCEPT !.N = @ + 1]

Drain(k) ==
    /\ phase.name \in {"fill", "drain"}
    /\ k \in stored
    /\ EraseCall(k)
    /\ phase' = [phase EXCEPT !.name = "drain"]

NextFill ==
    \/ \E k \in Key, v \in T : Fill(k, v)
    \/ \E k \in Key : Drain(k)

InitFill ==
    /\ InitMap /\ Key = Keys /\ T = {1} /\ Compare = "less"
    /\ phase = [name |-> "fill", N |-> 0]

SpecFill == InitFill /\ [][NextFill]_vars

\* ---------------------------------------------------------- renamed keys
\* The code only compares keys (comparator_, and == in insert), so what a call
\* does depends on the order of the keys alone.  This caller renames the
\* stored keys to 2, 4, ..., 2n, keeping their order, after each call, and
\* inserts a key from any gap (1, 3, ..., 2n+1) or erases any stored key: its
\* maps are the maps of every key set of at most MaxDeep keys, up to renaming.
Rerank(m) ==
    [m EXCEPT !.heap =
        [a \in DOMAIN m.heap |->
            IF a \in Reach(m.heap, m.root_)
            THEN [m.heap[a] EXCEPT !.value.first =
                     2 * Cardinality({n \in Reach(m.heap, m.root_) :
                                        ~comparator_(m.heap[a].value.first,
                                                     m.heap[n].value.first)})]
            ELSE m.heap[a]]]

\* a call of insert(value_type(k, v)) with a key not stored
DeepInsert(k, v) ==
    /\ k \notin stored /\ k <= 2 * size_ + 1 /\ size_ < MaxDeep
    /\ Bind(insert(this, Pair(k, v)), LAMBDA r :
            /\ Commit(Rerank(r))
            /\ last' = InsertBranch(r))
    /\ stored' = {2 * i : i \in 1..(size_ + 1)}
    /\ UNCHANGED <<Key, T, Compare, phase, other, alive, lost>>

\* a call of erase(k) with a stored key
DeepErase(k) ==
    /\ k \in stored
    /\ Commit(Rerank(erase(this, k)))
    /\ last' = EraseBranch(this, k)
    /\ stored' = {2 * i : i \in 1..(size_ - 1)}
    /\ UNCHANGED <<Key, T, Compare, phase, other, alive, lost>>

NextDeep ==
    \/ \E k \in Key, v \in T : DeepInsert(k, v)
    \/ \E k \in Key : DeepErase(k)

InitDeep ==
    /\ heap = [a \in AddrDeep |-> FreeNode]
    /\ root_ = NULL /\ b_iter_ = NULL /\ size_ = 0
    /\ stored = {}
    /\ last = [op |-> "init", branch |-> "none", min |-> FALSE]
    /\ other = NoMap /\ alive = {"this"} /\ lost = FALSE
    /\ Key = KeysDeep /\ T = {1} /\ Compare = "less" /\ AnyCaller

SpecDeep == InitDeep /\ [][NextDeep]_vars

\* ------------------------------------------------------------- rotations
\* skew and split as functions of a tree: they are applied to any node of
\* any binary search tree with consistent parent links, whatever its levels.
\* Such a tree is what insert's linkage (findParent, new Node, parent->left /
\* parent->right = new_node) builds when no walk follows, with the levels
\* chosen freely.
PlainInsert(m, value, level) ==
    Bind(findParent(m, value.first), LAMBDA parent :
    Bind(NewAddr(m.heap), LAMBDA new_node :
    Bind([m EXCEPT !.heap[new_node] = Node(value, NULL, NULL, parent, level),
                   !.size_ = @ + 1], LAMBDA m1 :
    IF parent = NULL
    THEN [m1 EXCEPT !.root_ = new_node, !.b_iter_ = new_node]
    ELSE Bind(IF comparator_(value.first, m1.heap[m1.b_iter_].value.first)
              THEN [m1 EXCEPT !.b_iter_ = new_node]
              ELSE m1, LAMBDA m2 :
         IF comparator_(value.first, m2.heap[parent].value.first)
         THEN [m2 EXCEPT !.heap[parent].left = new_node]
         ELSE [m2 EXCEPT !.heap[parent].right = new_node]))))

SkewTrigger(m, node) ==
    m.heap[node].left # NULL /\ m.heap[m.heap[node].left].level = m.heap[node].level

SplitTrigger(m, node) ==
    /\ m.heap[node].right # NULL
    /\ m.heap[m.heap[node].right].right # NULL
    /\ m.heap[m.heap[m.heap[node].right].right].level = m.heap[node].level

RotFrame == UNCHANGED <<Key, T, Compare, stored, other, alive, lost>>

\* skew(node) on the tree
Skew(node) ==
    /\ phase.name = "input"
    /\ node \in Reach(heap, root_)
    /\ Commit(skew(this, node))
    /\ last' = [op |-> "skew",
                branch |-> IF SkewTrigger(this, node) THEN "rotated" ELSE "kept",
                min |-> FALSE]
    /\ phase' = [phase EXCEPT !.name = "output"]
    /\ RotFrame

\* split(node) on the tree
Split(node) ==
    /\ phase.name = "input"
    /\ node \in Reach(heap, root_)
    /\ Commit(split(this, node))
    /\ last' = [op |-> "split",
                branch |-> IF SplitTrigger(this, node) THEN "rotated" ELSE "kept",
                min |-> FALSE]
    /\ phase' = [phase EXCEPT !.name = "output"]
    /\ RotFrame

\* one more node is linked into the tree, with any level; the stored keys
\* are then renamed to 2, 4, ..., 2n
Link(k, level) ==
    /\ phase.name = "input"
    /\ k \notin stored /\ k <= 2 * size_ + 1 /\ size_ < MaxRot
    /\ Commit(Rerank(PlainInsert(this, Pair(k, 1), level)))
    /\ stored' = {2 * i : i \in 1..(size_ + 1)}
    /\ last' = [op |-> "link", branch |-> "none", min |-> FALSE]
    /\ UNCHANGED <<Key, T, Compare, phase, other, alive, lost>>

NextRot ==
    \/ \E k \in Key, level \in 1..MaxLevel : Link(k, level)
    \/ \E node \in Addr : Skew(node)
    \/ \E node \in Addr : Split(node)

InitRot ==
    /\ InitMap /\ Key = 1..(2 * MaxRot + 1) /\ T = {1} /\ Compare = "less"
    /\ phase = [name |-> "input", N |-> 0]

SpecRot == InitRot /\ [][NextRot]_vars

\* ------------------------------------------------------ allocation failure
\* a call of insert(value_type(k, v)) made when no memory is left
InsertNoMemory(k, v) ==
    /\ Bind(insertNoMemory(this, Pair(k, v)), LAMBDA r :
            /\ Commit(r.map)
            /\ last' = [op |-> "insert",
                        branch |-> IF r.thrown THEN "bad_alloc" ELSE "dup",
                        min |-> FALSE])
    /\ UNCHANGED <<Key, T, Compare, stored, phase, other, alive, lost>>

NextAlloc ==
    \/ Next
    \/ \E k \in Key, v \in T : InsertNoMemory(k, v)

InitAlloc == InitMap /\ Key = KeysC /\ T = Vals /\ Compare = "less" /\ AnyCaller

SpecAlloc == InitAlloc /\ [][NextAlloc]_vars

\* ------------------------------------------------------- two Map instances
\* A caller that owns two Map objects, "this" and "other", and constructs,
\* copies, moves, modifies and destroys them in any order.  The members of
\* "this" are the variables root_, b_iter_, size_; those of "other" are the
\* fields of the variable other.
Instances == {"this", "other"}

TheOther(x) == IF x = "this" THEN "other" ELSE "this"

Members(m) == [root_ |-> m.root_, b_iter_ |-> m.b_iter_, size_ |-> m.size_]

\* the map object of instance x
Inst(x) ==
    IF x = "this" THEN this
    ELSE [this EXCEPT !.root_ = other.root_, !.b_iter_ = other.b_iter_,
                      !.size_ = other.size_]

\* the members after a call that left the heap h and the members a of "this"
\* and b of "other"; the nodes of "this" are renumbered first, then those of
\* "other"
CommitHeap(h, a, b) ==
    Bind(Preorder(h, a.root_) \o
         SelectSeq(Preorder(h, b.root_), LAMBDA n : n \notin Reach(h, a.root_)),
         LAMBDA order :
    /\ heap' = [i \in DOMAIN h |->
                  IF i <= Len(order)
                  THEN Bind(h[order[i]], LAMBDA n :
                       Node(n.value, Index(order, n.left), Index(order, n.right),
                            Index(order, n.parent), n.level))
                  ELSE FreeNode]
    /\ root_' = Index(order, a.root_)
    /\ b_iter_' = Index(order, a.b_iter_)
    /\ size_' = a.size_
    /\ other' = [root_ |-> Index(order, b.root_),
                 b_iter_ |-> Index(order, b.b_iter_),
                 size_ |-> b.size_]
    /\ lost' = (lost \/ \E i \in DOMAIN h : h[i] # FreeNode /\ Index(order, i) = Dangling))

\* the members after a call on instance x that left its map object r and the
\* members ym of the other instance
CommitTwo(x, r, ym) ==
    IF x = "this" THEN CommitHeap(r.heap, Members(r), ym)
    ELSE CommitHeap(r.heap, ym, Members(r))

Called(op) == last' = [op |-> op, branch |-> "none", min |-> FALSE]

TwoFrame == UNCHANGED <<Key, T, Compare, stored, phase>>

\* x.insert(value_type(k, v))
TwoInsert(x, k, v) ==
    /\ x \in alive
    /\ CommitTwo(x, insert(Inst(x), Pair(k, v)), Members(Inst(TheOther(x))))
    /\ Called("insert") /\ UNCHANGED alive /\ TwoFrame

\* x.erase(k)
TwoErase(x, k) ==
    /\ x \in alive
    /\ CommitTwo(x, erase(Inst(x), k), Members(Inst(TheOther(x))))
    /\ Called("erase") /\ UNCHANGED alive /\ TwoFrame

\* Map x;
Construct(x) ==
    /\ x \notin alive
    /\ CommitTwo(x, [this EXCEPT !.root_ = NULL, !.b_iter_ = NULL, !.size_ = 0],
                 Members(Inst(TheOther(x))))
    /\ alive' = alive \cup {x}
    /\ Called("construct") /\ TwoFrame

\* Map x(y);
CopyConstruct(x) ==
    /\ x \notin alive /\ TheOther(x) \in alive
    /\ CommitTwo(x, MapCopy(Inst(TheOther(x))), Members(Inst(TheOther(x))))
    /\ alive' = alive \cup {x}
    /\ Called("copy_construct") /\ TwoFrame

\* Map x(std::move(y));
MoveConstruct(x) ==
    /\ x \notin alive /\ TheOther(x) \in alive
    /\ Bind(MapMove(Inst(TheOther(x))), LAMBDA p :
            CommitTwo(x, p.dst, Members(p.src)))
    /\ alive' = alive \cup {x}
    /\ Called("move_construct") /\ TwoFrame

\* x = y;  (y may be x itself)
CopyAssignCall(x, y) ==
    /\ x \in alive /\ y \in alive
    /\ CommitTwo(x, CopyAssign(Inst(x), Inst(y), x = y), Members(Inst(TheOther(x))))
    /\ Called("copy_assign") /\ UNCHANGED alive /\ TwoFrame

\* x = std::move(y);  (y may be x itself)
MoveAssignCall(x, y) ==
    /\ x \in alive /\ y \in alive
    /\ Bind(MoveAssign(Inst(x), Inst(y), x = y), LAMBDA p :
            CommitTwo(x, p.dst,
                      IF x = y THEN Members(Inst(TheOther(x))) ELSE Members(p.src)))
    /\ Called("move_assign") /\ UNCHANGED alive /\ TwoFrame

\* the lifetime of x ends: ~Map
Destroy(x) ==
    /\ x \in alive
    /\ CommitTwo(x, DestroyMap(Inst(x)), Members(Inst(TheOther(x))))
    /\ alive' = alive \ {x}
    /\ Called("destroy") /\ TwoFrame

NextTwo ==
    \E x \in Instances :
        \/ \E k \in Key, v \in T : TwoInsert(x, k, v)
        \/ \E k \in Key : TwoErase(x, k)
        \/ Construct(x)
        \/ CopyConstruct(x)
        \/ MoveConstruct(x)
        \/ \E y \in Instances : CopyAssignCall(x, y)
        \/ \E y \in Instances : MoveAssignCall(x, y)
        \/ Destroy(x)

InitTwo == InitMap /\ Key = Keys2 /\ T = Vals /\ Compare = "less" /\ AnyCaller

SpecTwo == InitTwo /\ [][NextTwo]_vars

\* ---------------------------------------------------------------- properties
\* the nodes of the tree: everything reachable from root_ by child links
NodesOf(m) ==
    Bind(Preorder(m.heap, m.root_), LAMBDA order : {order[i] : i \in 1..Len(order)})

KeyOf(m, n) == m.heap[n].value.first

\* the keys met walking from node n by ++ until end(), at most `fuel` steps
RECURSIVE WalkKeys(_, _, _)
WalkKeys(h, n, fuel) ==
    IF n = e_iter_ \/ fuel = 0 THEN <<>>
    ELSE <<h[n].value.first>> \o WalkKeys(h, next(h, n), fuel - 1)

WalkFromBegin == WalkKeys(heap, begin(this), Cardinality(Addr) + 1)

\* C1: walking from begin() by successor steps until end() visits strictly
\* ascending keys, and they are exactly the keys inserted and not erased
\* since, each once.
C1_InOrderWalk ==
    Bind(WalkFromBegin, LAMBDA w :
    /\ \A i \in 1..(Len(w) - 1) : comparator_(w[i], w[i + 1])
    /\ {w[i] : i \in 1..Len(w)} = stored
    /\ Len(w) = Cardinality(stored))

C1_Witness ==
    /\ last.op = "erase" /\ last.branch = "two"
    /\ Cardinality(stored) >= 5
    /\ Len(WalkFromBegin) >= 5

\* the four level rules at node n of the heap h
LevelRules(h, n) ==
    /\ (h[n].left = NULL /\ h[n].right = NULL) => h[n].level = 1
    /\ h[n].left # NULL => h[h[n].left].level < h[n].level
    /\ h[n].right # NULL =>
          \/ h[h[n].right].level = h[n].level
          \/ h[h[n].right].level = h[n].level - 1
    /\ (h[n].right # NULL /\ h[h[n].right].right # NULL) =>
          h[h[h[n].right].right].level < h[n].level

\* C2: after every insert and every erase all four level rules hold at
\* every node.
C2_LevelRules == \A n \in NodesOf(this) : LevelRules(heap, n)

C2_Witness ==
    /\ last.op = "erase" /\ last.branch = "two"
    /\ root_ # NULL /\ heap[root_].level = 3

\* C7: begin() refers to the node holding the smallest key present, and
\* begin() == end() exactly when the map is empty (size() == 0, no root).
C7_BeginIsMinimum ==
    /\ (begin(this) = end(this)) <=> (getSize(this) = 0 /\ root_ = NULL)
    /\ begin(this) # end(this) =>
          /\ begin(this) \in NodesOf(this)
          /\ \A n \in NodesOf(this) :
                ~comparator_(KeyOf(this, n), KeyOf(this, begin(this)))

C7_Witness ==
    /\ last.op = "erase" /\ last.min
    /\ size_ >= 3

\* C9: no two nodes of the tree hold keys that are equivalent under the
\* comparator.
C9_NoEquivalentKeys ==
    \A a \in NodesOf(this), b \in NodesOf(this) :
        a # b => \/ comparator_(KeyOf(this, a), KeyOf(this, b))
                 \/ comparator_(KeyOf(this, b), KeyOf(this, a))

\* C10: inserting N distinct keys in any order and then erasing all N in any
\* order ends in the empty state: no root, size() == 0, begin() == end().
C10_FillDrainEmpty ==
    (phase.name = "drain" /\ stored = {}) =>
        /\ root_ = NULL
        /\ getSize(this) = 0
        /\ begin(this) = end(this)

C10_Witness ==
    /\ phase.name = "drain" /\ stored = {}
    /\ phase.N = MaxKey
    /\ last.op = "erase"

\* the pair find(key) dereferences to in the map m
Deref(m, key) == m.heap[find(m, key)].value

\* some node of m holds a key equivalent to key
HoldsEquivalent(m, key) == \E n \in NodesOf(m) : Equivalent(KeyOf(m, n), key)

\* the members and nodes of r are those of the current map
SameMap(r) ==
    /\ r.heap = heap
    /\ r.root_ = root_
    /\ r.b_iter_ = b_iter_
    /\ r.size_ = size_

\* C3: erase(k) leaves every other mapping intact; when the erased node has
\* two children the retained node ends up holding the successor's key with
\* the successor's own value, and only the successor's node is released.
C3_EraseKeepsOtherMappings ==
    \A k \in Key :
        Bind(erase(this, k), LAMBDA r :
        /\ \A j \in Key \ {k} :
              contains(this, j) =>
                  /\ find(r, j) # end(r)
                  /\ Deref(r, j) = Deref(this, j)
        /\ EraseBranch(this, k).branch = "two" =>
              Bind(findNode(this, k), LAMBDA n :
              /\ r.heap[n].value = heap[next(heap, n)].value
              /\ r.freed = {next(heap, n)}))

\* C4: insert(k, v) of a key not present returns inserted = true and a handle
\* that dereferences to (k, v); afterwards find(k) yields (k, v), contains(k)
\* holds, size() is one larger and every other key keeps its value.
C4_InsertNewKey ==
    \A k \in Key, v \in T :
        ~HoldsEquivalent(this, k) =>
            Bind(insert(this, Pair(k, v)), LAMBDA r :
            /\ r.ok
            /\ r.heap[r.ret].value = Pair(k, v)
            /\ find(r, k) # end(r)
            /\ Deref(r, k) = Pair(k, v)
            /\ contains(r, k)
            /\ getSize(r) = getSize(this) + 1
            /\ \A j \in Key :
                  contains(this, j) =>
                      /\ find(r, j) # end(r)
                      /\ Deref(r, j) = Deref(this, j))

C4_Witness ==
    /\ last.op = "insert" /\ last.branch = "new"
    /\ size_ >= 4
    /\ \E a \in NodesOf(this), b \in NodesOf(this) :
          heap[a].value.second # heap[b].value.second

\* C5: insert(k, v) with some stored key equivalent to k returns
\* inserted = false and a handle to the existing node, and changes nothing.
C5_InsertEquivalentKey ==
    \A k \in Key, v \in T :
        HoldsEquivalent(this, k) =>
            Bind(insert(this, Pair(k, v)), LAMBDA r :
            /\ ~r.ok
            /\ r.ret \in NodesOf(this)
            /\ Equivalent(KeyOf(this, r.ret), k)
            /\ SameMap(r))

\* C6: after erase(k), find(k) == end() and contains(k) is false; size() is
\* one smaller if k was present and unchanged if it was absent.
C6_EraseRemovesKey ==
    \A k \in Key :
        Bind(erase(this, k), LAMBDA r :
        /\ find(r, k) = end(r)
        /\ ~contains(r, k)
        /\ getSize(r) = IF HoldsEquivalent(this, k)
                        THEN getSize(this) - 1
                        ELSE getSize(this))

C6_Witness ==
    /\ last.op = "erase" /\ last.branch \in {"leaf", "right", "two"}
    /\ size_ >= 6

\* C8: erase(k) on an empty map, or on a map holding no key equivalent to k,
\* changes nothing and releases no node.
C8_EraseAbsentKey ==
    \A k \in Key :
        (root_ = NULL \/ ~HoldsEquivalent(this, k)) =>
            Bind(erase(this, k), LAMBDA r :
            /\ SameMap(r)
            /\ r.freed = {})

C8_Witness ==
    /\ last.op = "erase" /\ last.branch = "absent"
    /\ size_ >= 3

\* the subtrees at a and b of the heap h have the same shape and, position by
\* position, the same level, key and value
RECURSIVE SameTree(_, _, _)
SameTree(h, a, b) ==
    IF a = NULL \/ b = NULL THEN a = b
    ELSE /\ h[a].value = h[b].value
         /\ h[a].level = h[b].level
         /\ SameTree(h, h[a].left, h[b].left)
         /\ SameTree(h, h[a].right, h[b].right)

\* child and parent links of the tree at root agree
ParentsAgree(h, root) ==
    /\ root # NULL => h[root].parent = NULL
    /\ \A n \in Reach(h, root) :
          /\ h[n].left # NULL => h[h[n].left].parent = n
          /\ h[n].right # NULL => h[h[n].right].parent = n

\* the nodes of instance y are in the heap h what they are now
Untouched(h, y) == \A n \in NodesOf(Inst(y)) : h[n] = heap[n]

\* c is the map a copy of instance y left: an equal tree made of nodes of its
\* own, with y as it was
CopyPost(c, y) ==
    /\ SameTree(c.heap, c.root_, Inst(y).root_)
    /\ ParentsAgree(c.heap, c.root_)
    /\ getSize(c) = getSize(Inst(y))
    /\ begin(c) = beginNode(c.heap, c.root_)
    /\ NodesOf(c) \cap NodesOf(Inst(y)) = {}
    /\ \A n \in NodesOf(c) : c.heap[n] # FreeNode
    /\ Untouched(c.heap, y)

\* C11: a copy (by construction or by assignment) of a map is a tree of the
\* same shape with the same level, key and value at every position, the same
\* size() and its cached minimum at its own leftmost node, sharing no node
\* with the source; insert and erase on one of the two maps leave the nodes
\* of the other as they were.
C11_CopyIsolation ==
    \A x \in Instances :
        TheOther(x) \in alive =>
            /\ x \in alive =>
                  CopyPost(CopyAssign(Inst(x), Inst(TheOther(x)), FALSE), TheOther(x))
            /\ x \notin alive =>
                  CopyPost(MapCopy(Inst(TheOther(x))), TheOther(x))
            /\ x \in alive =>
                  \A k \in Key :
                      /\ Untouched(erase(Inst(x), k).heap, TheOther(x))
                      /\ \A v \in T :
                            Untouched(insert(Inst(x), Pair(k, v)).heap, TheOther(x))

C11_Witness ==
    /\ last.op = "copy_assign"
    /\ alive = Instances
    /\ size_ = MaxKey2 /\ other.size_ = MaxKey2
    /\ SameTree(heap, root_, other.root_)
    /\ root_ # other.root_
    /\ \E a \in NodesOf(this), b \in NodesOf(this) :
          heap[a].value.second # heap[b].value.second

\* C12: over two instances and any sequence of insert, erase, copy
\* assignment, move construction, move assignment and destruction, every
\* allocated node is released exactly once: no node belongs to both
\* instances (it would be released twice), no released node is reachable
\* from an instance, the destructor releases exactly the nodes of its
\* instance, and no node becomes unreachable from both instances while
\* unreleased, so that nothing is left once both are destroyed.
C12_ReleasedExactlyOnce ==
    /\ NodesOf(Inst("this")) \cap NodesOf(Inst("other")) = {}
    /\ \A x \in Instances :
          /\ \A n \in NodesOf(Inst(x)) : heap[n] # FreeNode
          /\ DestroyMap(Inst(x)).freed = NodesOf(Inst(x))
    /\ ~lost
    /\ alive = {} => \A a \in Addr : heap[a] = FreeNode

\* C13: when the allocation in insert(k, v) of a key not present fails, the
\* exception reaches the caller and the map is as before the call: root_,
\* every node (children, parent, level, key, value), size_ and b_iter_.
C13_AllocationFailure ==
    \A k \in Key, v \in T :
        ~HoldsEquivalent(this, k) =>
            Bind(insertNoMemory(this, Pair(k, v)), LAMBDA r :
            /\ r.thrown
            /\ SameMap(r.map)
            /\ r.map.freed = {})

C13_Witness ==
    /\ last.op = "insert" /\ last.branch = "bad_alloc"
    /\ size_ >= 3

\* the number of nodes on the longest path from node n down to a leaf
RECURSIVE Height(_, _)
Height(h, n) ==
    IF n = NULL THEN 0
    ELSE Bind(Height(h, h[n].left), LAMBDA l :
         Bind(Height(h, h[n].right), LAMBDA r :
         1 + IF l > r THEN l ELSE r))

RootLevel == IF root_ = NULL THEN 0 ELSE heap[root_].level

\* C14: with L the level of the root and n = size(), every path from the
\* root down to a leaf has at most 2*L nodes, and n >= 2^L - 1.
C14_LogBalance ==
    /\ Height(heap, root_) <= 2 * RootLevel
    /\ getSize(this) >= 2 ^ RootLevel - 1

C14_Witness ==
    /\ last.op = "erase"
    /\ RootLevel = 3
    /\ Height(heap, root_) >= 5

\* C15: after every insert and erase, and after copy and move, size() of a
\* map is the number of nodes reachable from its root, and empty() holds
\* exactly when its root is null.
C15_SizeIsNodeCount ==
    \A x \in alive :
        /\ getSize(Inst(x)) = Cardinality(NodesOf(Inst(x)))
        /\ empty(Inst(x)) <=> (Inst(x).root_ = NULL)

C15_Witness ==
    /\ last.op \in {"move_assign", "move_construct", "copy_assign", "copy_construct"}
    /\ alive = Instances
    /\ size_ = 0 /\ other.size_ = MaxKey2

\* C16: whenever a node's left or right link refers to B, B's parent link
\* refers back to that node; the root's parent link is null; every other
\* node is the left or right child of its parent; and no node is reached
\* twice from root_ (the nodes form a tree).
C16_ParentLinks ==
    /\ ParentsAgree(heap, root_)
    /\ \A n \in NodesOf(this) \ {root_} :
          /\ heap[n].parent \in NodesOf(this)
          /\ heap[heap[n].parent].left = n \/ heap[heap[n].parent].right = n
    /\ Len(Preorder(heap, root_)) = Cardinality(NodesOf(this))

C16_Witness ==
    /\ last.op = "erase" /\ last.branch = "two"
    /\ size_ >= 9
    /\ RootLevel = 3

\* the nodes of the tree whose key is greater (smaller) than that of node n
Greater(n) == {g \in NodesOf(this) : comparator_(KeyOf(this, n), KeyOf(this, g))}
Smaller(n) == {g \in NodesOf(this) : comparator_(KeyOf(this, g), KeyOf(this, n))}

\* C17: next(n) holds the smallest key greater than n's and prev(next(n)) is
\* n; prev(n) holds the largest key smaller than n's and next(prev(n)) is n;
\* next of the node of the maximum key and prev of the node of the minimum
\* key are null.
C17_NextPrevInverse ==
    \A n \in NodesOf(this) :
        /\ IF Greater(n) = {} THEN next(heap, n) = NULL
           ELSE /\ next(heap, n) \in Greater(n)
                /\ \A g \in Greater(n) :
                      ~comparator_(KeyOf(this, g), KeyOf(this, next(heap, n)))
                /\ prev(heap, next(heap, n)) = n
        /\ IF Smaller(n) = {} THEN prev(heap, n) = NULL
           ELSE /\ prev(heap, n) \in Smaller(n)
                /\ \A g \in Smaller(n) :
                      ~comparator_(KeyOf(this, prev(heap, n)), KeyOf(this, g))
                /\ next(heap, prev(heap, n)) = n

C17_Witness ==
    /\ last.op = "insert" /\ last.branch = "new"
    /\ size_ >= 10
    /\ RootLevel = 3
    /\ \E n \in NodesOf(this) :
          /\ heap[n].left # NULL /\ heap[heap[n].left].right # NULL
          /\ heap[n].right # NULL /\ heap[heap[n].right].left # NULL

\* the nodes of the subtree at n in the order of an in-order walk
RECURSIVE Inorder(_, _)
Inorder(h, n) ==
    IF n = NULL THEN <<>>
    ELSE Inorder(h, h[n].left) \o <<n>> \o Inorder(h, h[n].right)

\* what skew and split have in common, r being the map either left when
\* called on node: the in-order sequence of nodes, every key and value,
\* size_ and b_iter_ are kept, parent links agree with child links, the node
\* `up` is returned, and root_ becomes `up` exactly when node was the root
RotationFrame(r, node, up) ==
    /\ Inorder(r.heap, r.root_) = Inorder(heap, root_)
    /\ \A n \in NodesOf(this) : r.heap[n].value = heap[n].value
    /\ ParentsAgree(r.heap, r.root_)
    /\ r.size_ = size_ /\ r.b_iter_ = b_iter_
    /\ r.ret = up
    /\ r.root_ = IF root_ = node THEN up ELSE root_

\* C18: on any node of any binary search tree with consistent parent links,
\* skew and split keep the in-order sequence and the set of nodes and keep
\* parent links consistent; skew changes no level, split raises the level
\* of the promoted right child by one and changes no other; when the trigger
\* is false (skew: no left child of equal level, split: no right-right
\* grandchild of equal level) the node itself is returned and nothing
\* changes; root_ becomes the promoted node exactly when node was the root.
C18_RotationFrame ==
    \A node \in NodesOf(this) :
        /\ Bind(skew(this, node), LAMBDA r :
              IF SkewTrigger(this, node)
              THEN /\ RotationFrame(r, node, heap[node].left)
                   /\ \A n \in NodesOf(this) : r.heap[n].level = heap[n].level
              ELSE r.ret = node /\ SameMap(r))
        /\ Bind(split(this, node), LAMBDA r :
              IF SplitTrigger(this, node)
              THEN /\ RotationFrame(r, node, heap[node].right)
                   /\ \A n \in NodesOf(this) :
                         r.heap[n].level = IF n = heap[node].right
                                           THEN heap[n].level + 1
                                           ELSE heap[n].level
              ELSE r.ret = node /\ SameMap(r))

C18_Witness ==
    /\ phase.name = "output"
    /\ last.branch = "rotated"
    /\ size_ = MaxRot
    /\ root_ # NULL /\ heap[root_].left # NULL /\ heap[root_].right # NULL

\* the walk of the reference insertion: skew, then split of the subtree's
\* root, at every ancestor from node up to the root
RECURSIVE WalkToRoot(_, _)
WalkToRoot(m, node) ==
    IF node = NULL THEN m
    ELSE Bind(skew(m, node), LAMBDA s1 :
         Bind(split(s1, s1.ret), LAMBDA s2 :
         WalkToRoot(s2, s2.heap[s2.ret].parent)))

\* the reference insertion of a key not present: the new node is linked as
\* insert links it, and the walk starts at the attachment parent and goes to
\* the root
InsertToRoot(m, value) ==
    WalkToRoot(PlainInsert(m, value, 1), findParent(m, value.first))

\* the same walk, with split applied to the visited node itself and the
\* walk continuing at that node's parent, as insert moves upward
RECURSIVE WalkToRootByNode(_, _)
WalkToRootByNode(m, node) ==
    IF node = NULL THEN m
    ELSE Bind(skew(m, node), LAMBDA s1 :
         Bind(split(s1, node), LAMBDA s2 :
         WalkToRootByNode(s2, s2.heap[node].parent)))

\* the maps m and r hold the same tree: nodes, links, levels, root_, b_iter_
\* and size_
SameTreeAs(m, r) ==
    /\ m.heap = r.heap
    /\ m.root_ = r.root_
    /\ m.b_iter_ = r.b_iter_
    /\ m.size_ = r.size_

\* a key that stands for every absent key between the same two stored keys
IsGap(k) == ~HoldsEquivalent(this, k) /\ k <= 2 * size_ + 1

\* insert(k) ends its walk below the root: the node the loop would visit
\* next, or NULL when the walk reached the root
InsertWalkEnd(m, value) ==
    Bind(findParent(m, value.first), LAMBDA parent :
    IF parent = NULL THEN NULL
    ELSE InsertLink([m EXCEPT !.heap[NewAddr(m.heap)] =
                                  Node(value, NULL, NULL, parent, 1),
                              !.size_ = @ + 1],
                    value, parent, NewAddr(m.heap)).ret)

\* C19: for every reachable tree and every key not present, insert as coded
\* (walk from the parent for a left attachment and from the grandparent for
\* a right one, split skipped where skew rotated, stop after 3 ancestors in
\* a row without change) leaves the same tree as the insertion that walks
\* from the attachment parent to the root with skew then split at every
\* ancestor.
C19_InsertShortcuts ==
    \A k \in Key, v \in T :
        IsGap(k) =>
            /\ SameTreeAs(insert(this, Pair(k, v)), InsertToRoot(this, Pair(k, v)))
            /\ SameTreeAs(insert(this, Pair(k, v)),
                          WalkToRootByNode(PlainInsert(this, Pair(k, v), 1),
                                           findParent(this, k)))

\* some insertion into this tree ends its walk below the root
C19_Witness ==
    /\ last.op = "insert" /\ last.branch = "new"
    /\ \E k \in Key : IsGap(k) /\ InsertWalkEnd(this, Pair(k, 1)) # NULL

\* the walk of the reference deletion: level decrease, the skews and the
\* splits at every ancestor from node up to the root
RECURSIVE EraseWalkToRoot(_, _)
EraseWalkToRoot(m, node) ==
    IF node = NULL THEN m
    ELSE Bind(decreaseNodeLevel(m, node), LAMBDA m1 :
         Bind(EraseRebalance(m1, node), LAMBDA m2 :
         EraseWalkToRoot(m2, m2.heap[m2.ret].parent)))

\* the reference deletion of a key present: the node is removed as erase
\* removes it, and the walk goes to the root
EraseToRoot(m, erased_key) ==
    Bind(EraseNode(m, findNode(m, erased_key)), LAMBDA m1 :
    EraseWalkToRoot(m1, m1.ret))

\* erase(erased_key) of a key present, with ret the node its walk would
\* visit next when it stops, or NULL when the walk reached the root
EraseWalkEnd(m, erased_key) ==
    Bind(EraseNode(m, findNode(m, erased_key)), LAMBDA m1 :
    EraseWalk(m1, m1.ret, TRUE))

\* node n and the nodes above it
RECURSIVE Ancestors(_, _)
Ancestors(h, n) == IF n = NULL THEN {} ELSE {n} \cup Ancestors(h, h[n].parent)

\* C20: for every reachable tree and every key present, erase as coded
\* (the walk stops at the first ancestor whose level does not change) leaves
\* the same tree as the deletion whose walk continues to the root with the
\* level decrease, the skews and the splits at every ancestor; when the walk
\* stops, every node above the stopping point satisfies the level rules.
C20_EraseEarlyStop ==
    \A k \in Key :
        HoldsEquivalent(this, k) =>
            /\ SameTreeAs(erase(this, k), EraseToRoot(this, k))
            /\ Bind(EraseWalkEnd(this, k), LAMBDA r :
                  \A n \in Ancestors(r.heap, r.ret) : LevelRules(r.heap, n))

\* some deletion from this tree changes the level of a node and stops its
\* walk below the root
C20_Witness ==
    /\ last.op = "erase" /\ last.branch = "two"
    /\ \E k \in Key :
          /\ HoldsEquivalent(this, k)
          /\ EraseWalkEnd(this, k).ret # NULL
          /\ \E n \in NodesOf(this) :
                EraseWalkEnd(this, k).heap[n].level \notin {0, heap[n].level}

\* the calls of decreaseNodeLevel made by erase's walk from rebalance_node:
\* the set of records [m, node] with the map as it is when the call is made
RECURSIVE EraseWalkCalls(_, _, _)
EraseWalkCalls(m, rebalance_node, is_level_changed) ==
    IF rebalance_node = NULL \/ ~is_level_changed
    THEN {}
    ELSE Bind(decreaseNodeLevel(m, rebalance_node), LAMBDA m1 :
         {[m |-> m, node |-> rebalance_node]} \cup
         (IF m.heap[rebalance_node].level # m1.heap[rebalance_node].level
          THEN Bind(EraseRebalance(m1, rebalance_node), LAMBDA m2 :
               EraseWalkCalls(m2, m2.heap[m2.ret].parent, TRUE))
          ELSE EraseWalkCalls(m1, m1.heap[rebalance_node].parent, FALSE)))

\* the calls of decreaseNodeLevel made by erase(erased_key) of a key present
DecreaseCalls(m, erased_key) ==
    Bind(EraseNode(m, findNode(m, erased_key)), LAMBDA m1 :
    EraseWalkCalls(m1, m1.ret, TRUE))

\* the level of a child, a missing child counting as level 0
ChildLevel(h, child) == IF child = NULL THEN 0 ELSE h[child].level

\* how far the left and the right child of c.node are below it at call c
LeftBelow(c) ==
    c.m.heap[c.node].level - ChildLevel(c.m.heap, c.m.heap[c.node].left)

RightBelow(c) ==
    c.m.heap[c.node].level - ChildLevel(c.m.heap, c.m.heap[c.node].right)

\* at call c the right child of c.node shares its level
RightShares(c) ==
    /\ c.m.heap[c.node].right # NULL
    /\ c.m.heap[c.m.heap[c.node].right].level = c.m.heap[c.node].level

\* call c decrements the level of c.node by one
Decrements(c) ==
    decreaseNodeLevel(c.m, c.node).heap[c.node].level
        = c.m.heap[c.node].level - 1

\* call c leaves the level of c.node as it was
KeepsLevel(c) ==
    decreaseNodeLevel(c.m, c.node).heap[c.node].level = c.m.heap[c.node].level

\* what call c leaves of the map when it decrements: the level of c.node
\* and, if it shared that level, the level of its right child are one less,
\* and nothing else differs
DecrementPost(c) ==
    Bind(decreaseNodeLevel(c.m, c.node), LAMBDA r :
        /\ [r EXCEPT !.heap = c.m.heap] = c.m
        /\ DOMAIN r.heap = DOMAIN c.m.heap
        /\ \A n \in DOMAIN r.heap :
              /\ [r.heap[n] EXCEPT !.level = 0] = [c.m.heap[n] EXCEPT !.level = 0]
              /\ r.heap[n].level =
                    IF n = c.node \/ (n = c.m.heap[c.node].right /\ RightShares(c))
                    THEN c.m.heap[n].level - 1
                    ELSE c.m.heap[n].level)

\* C21 as amended: at every ancestor erase's upward walk visits, the level
\* is decremented by one exactly when at least one of its children is more
\* than one level below it (a missing child counting as level 0); in that
\* case a right child that shared the ancestor's level is decremented by
\* one as well and nothing else changes; an ancestor with both children
\* within one level of it is left as it was.
C21_DecreaseWhenEitherBelow ==
    \A k \in Key :
        HoldsEquivalent(this, k) =>
            \A c \in DecreaseCalls(this, k) :
                IF LeftBelow(c) > 1 \/ RightBelow(c) > 1
                THEN Decrements(c) /\ DecrementPost(c)
                ELSE decreaseNodeLevel(c.m, c.node) = c.m

\* some deletion from this tree visits an ancestor with exactly one child
\* more than one level below it and a right child sharing its level, and
\* decrements both
C21_Witness ==
    /\ last.op = "erase"
    /\ \E k \in Key :
          /\ HoldsEquivalent(this, k)
          /\ \E c \in DecreaseCalls(this, k) :
                /\ LeftBelow(c) > 1
                /\ RightBelow(c) <= 1
                /\ RightShares(c)
                /\ Decrements(c)
                /\ decreaseNodeLevel(c.m, c.node).heap[c.m.heap[c.node].right].level
                      = c.m.heap[c.node].level - 1

\* C21 as stated: at every ancestor erase's upward walk visits, the level is
\* decremented by one exactly when both of its children are more than one
\* level below it (a missing child counting as level 0), a right child that
\* shared the level is then decremented as well, and an ancestor with at
\* least one child within one level of it keeps its level.
C21_DecreaseWhenBothBelow ==
    \A k \in Key :
        HoldsEquivalent(this, k) =>
            \A c \in DecreaseCalls(this, k) :
                IF LeftBelow(c) > 1 /\ RightBelow(c) > 1
                THEN Decrements(c) /\ DecrementPost(c)
                ELSE KeepsLevel(c)

\* the node erase(key) removes or overwrites is one with a left child and
\* no right child: the branch of erase that calls
\* trivialNodeErase(current_node, current_node->left)
TakesLeftOnlyBranch(m, key) ==
    /\ m.root_ # NULL
    /\ Bind(findNode(m, key), LAMBDA current_node :
          /\ current_node # NULL
          /\ m.heap[current_node].left # NULL
          /\ m.heap[current_node].right = NULL)

\* C22: after every completed insert and erase, every node whose level is
\* greater than 1 has both a left and a right child and every level-1 node
\* has no left child; so no node of the tree has a left child but no right
\* child, and erase's left-child-only branch is taken for no key and was
\* not taken by the last call.
C22_NoLeftOnlyNode ==
    /\ \A n \in NodesOf(this) :
          /\ heap[n].level >= 1
          /\ heap[n].level > 1 => (heap[n].left # NULL /\ heap[n].right # NULL)
          /\ heap[n].level = 1 => heap[n].left = NULL
          /\ ~(heap[n].left # NULL /\ heap[n].right = NULL)
    /\ \A k \in Key : ~TakesLeftOnlyBranch(this, k)
    /\ last.branch # "left"

\* an erase has just completed and left a tree of three levels in which a
\* level-1 node has a right child only and a node above level 1 has a right
\* child of its own level
C22_Witness ==
    /\ last.op = "erase"
    /\ root_ # NULL /\ heap[root_].level = 3
    /\ \E n \in NodesOf(this) :
          heap[n].level = 1 /\ heap[n].left = NULL /\ heap[n].right # NULL
    /\ \E n \in NodesOf(this) :
          /\ heap[n].level > 1 /\ heap[n].right # NULL
          /\ heap[heap[n].right].level = heap[n].level

====
